---- MODULE Spec2Model ----
(***************************************************************************)
(* Job-Meth: a Discord bot that leases a fixed pool of fridge slots.       *)
(* The store is two PostgreSQL tables (fridge_slots, fridge_meta); the     *)
(* display surface is one panel message in a Discord channel.  Every       *)
(* handler is an async function: it is suspended at each await, so the     *)
(* model takes one step per awaited store or display call and lets the     *)
(* handlers of several interactions and of the timer interleave there.     *)
(* Time is in milliseconds, as Date.now() gives it.                        *)
(***************************************************************************)
EXTENDS Integers, Sequences, FiniteSets, TLC

\* ------------------------------------------------------------------ bounds
\* Number of slots of the model (the program runs with 24).
SLOT_COUNT == 2
\* How many times the clock advances in one behaviour.
MaxTicks == 1
\* How many panel messages the channel may ever receive.
MaxMessages == 2

\* --------------------------------------------------------------- constants
RESERVE_HOURS == 8
MS_PER_MIN == 60000
\* SQL NULL of a TIMESTAMPTZ column (timestamps are >= 0).
NULL_TS == -1
\* JS null / SQL NULL of a TEXT value.
NULL == "NULL"
\* No message id: getMeta returns null when the row is missing.
NoId == 0
\* r.rows[0]?.slot_no ?? null when no row came back.
NoSlot == 0

LEASE_MS == RESERVE_HOURS * 60 * 60 * 1000

Slots == 1..SLOT_COUNT
Users == {"u1", "u2"}
\* Control flows that run handlers at the same time: the interactions of
\* two users, one after another for each user, and the timer's callbacks.
Clients == {"h1", "h2"}
Procs == Clients \cup {"timer"}
\* interaction.user.id of the interactions a control flow runs
User(p) == IF p = "h1" THEN "u1" ELSE "u2"
\* How far the clock may jump between two steps: one lease exactly, or a
\* minute more than a lease.
ClockSteps == {LEASE_MS, LEASE_MS + MS_PER_MIN}
\* interaction.values[0] after Number(): the slot numbers and two that are out of range.
PickValues == 0..(SLOT_COUNT + 1)
\* Number(x) of a selection x that is not a number
NaN == -1
\* ... and the selections a crafted interaction may carry
Selections == PickValues \cup {NaN}

\* interaction.member?.displayName || interaction.user.username
displayName(u) == IF u = "u1" THEN "Alice" ELSE "Bob"

VARIABLES
  slots,      \* fridge_slots: slot_no -> row
  meta,       \* fridge_meta["panel_message_id"], NoId when absent
  messages,   \* the channel: message id -> [state: "none" | "live" | "deleted", doc: embed]
  nextId,     \* id the next channel.send will get
  channelUp,  \* whether client.channels.fetch gives a text channel
  now,        \* the clock (Date.now() and SQL NOW())
  ticks,      \* clock advances so far
  alive,      \* whether the Node process is running
  pc,         \* per invocation: where the handler is suspended
  kind,       \* per invocation: which handler runs
  slotNo,     \* the picked slot
  rowCount,   \* rowCount of the freeExpiredSlots UPDATE just awaited (dropped at the next step)
  ok,         \* result of reserveSlot
  released,   \* result of releaseSpecificSlot
  mine,       \* rows of getUserReservedSlots / free slots offered
  embed,      \* the document built by buildPanelEmbed
  messageId,  \* the id read by getMeta
  sent,       \* the id of the message created by channel.send
  reply       \* what the interaction was answered with

vars == <<slots, meta, messages, nextId, channelUp, now, ticks, alive, pc, kind,
          slotNo, rowCount, ok, released, mine, embed, messageId, sent, reply>>

store == <<slots, meta>>
surface == <<messages, nextId, channelUp>>
runtime == <<now, ticks, alive>>
locals == <<kind, slotNo, rowCount, ok, released, mine, embed, messageId, sent, reply>>

\* ------------------------------------------------------------ the store
FreeRow == [reserved_by_id |-> NULL, reserved_by_name |-> NULL,
            reserved_at |-> NULL_TS, ends_at |-> NULL_TS]

\* A sweep whose comparison is strict: a lease ending exactly now is kept.
ExpiredStrict(row, t) == row.ends_at # NULL_TS /\ row.ends_at < t

\* WHERE ends_at IS NOT NULL AND ends_at <= NOW()
Expired(row, t) == row.ends_at # NULL_TS /\ row.ends_at <= t

\* A sweep that clears one expired row per call, the lowest slot_no.
freeExpiredOne(sl, t) ==
  LET due == {s \in Slots : Expired(sl[s], t)}
  IN  [s \in Slots |-> IF s \in due /\ \A x \in due : s <= x THEN FreeRow ELSE sl[s]]

\* A sweep that clears the times of an expired row and keeps its holder.
freeExpiredKeepHolder(sl, t) ==
  [s \in Slots |-> IF Expired(sl[s], t)
                   THEN [sl[s] EXCEPT !.reserved_at = NULL_TS, !.ends_at = NULL_TS]
                   ELSE sl[s]]

\* UPDATE fridge_slots SET reserved_by_id=NULL, reserved_by_name=NULL,
\* reserved_at=NULL, ends_at=NULL WHERE <Expired>
freeExpiredSlots(sl, t) ==
  [s \in Slots |-> IF Expired(sl[s], t) THEN FreeRow ELSE sl[s]]

\* rowCount of that UPDATE
freeExpiredCount(sl, t) == Cardinality({s \in Slots : Expired(sl[s], t)})

\* A full listing in descending order of slot_no.
getSlotsDesc(sl) ==
  [i \in 1..SLOT_COUNT |-> [slot_no |-> SLOT_COUNT + 1 - i] @@ sl[SLOT_COUNT + 1 - i]]

\* SELECT ... ORDER BY slot_no ASC
getSlots(sl) == [i \in 1..SLOT_COUNT |-> [slot_no |-> i] @@ sl[i]]

\* A claim whose UPDATE has no condition on the holder.
reserveMatchesAlways(sl, s, userId) == s \in Slots

\* A claim that also matches a slot its caller already holds (a renewal).
reserveMatchesOwn(sl, s, userId) ==
  s \in Slots /\ sl[s].reserved_by_id \in {NULL, userId}

\* WHERE slot_no=$4 AND reserved_by_id IS NULL
reserveMatches(sl, s, userId) == s \in Slots /\ sl[s].reserved_by_id = NULL

\* UPDATE ... SET reserved_by_id=$1, reserved_by_name=$2, reserved_at=NOW(), ends_at=$3
reserveSlot(sl, s, userId, userName, t) ==
  IF reserveMatches(sl, s, userId)
  THEN [sl EXCEPT ![s] = [reserved_by_id |-> userId, reserved_by_name |-> userName,
                          reserved_at |-> t, ends_at |-> t + LEASE_MS]]
  ELSE sl

\* return r.rowCount === 1
reserveSlotResult(sl, s, userId) == reserveMatches(sl, s, userId)

\* SELECT slot_no, ends_at WHERE reserved_by_id=$1 ORDER BY slot_no ASC
getUserReservedSlots(sl, userId) == {s \in Slots : sl[s].reserved_by_id = userId}

\* A release whose UPDATE has no condition on the holder.
releaseMatchesAny(sl, s, userId) == s \in Slots /\ sl[s].reserved_by_id # NULL

\* WHERE slot_no=$1 AND reserved_by_id=$2
releaseMatches(sl, s, userId) == s \in Slots /\ sl[s].reserved_by_id = userId

\* A release that clears the holder and leaves the times of the lease.
releaseHolderOnly(sl, s, userId) ==
  IF releaseMatches(sl, s, userId)
  THEN [sl EXCEPT ![s] = [@ EXCEPT !.reserved_by_id = NULL, !.reserved_by_name = NULL]]
  ELSE sl

\* UPDATE ... SET all four NULL WHERE slot_no=$1 AND reserved_by_id=$2
releaseSpecificSlot(sl, s, userId) ==
  IF releaseMatches(sl, s, userId) THEN [sl EXCEPT ![s] = FreeRow] ELSE sl

\* return r.rows[0]?.slot_no ?? null
releaseSpecificSlotResult(sl, s, userId) ==
  IF releaseMatches(sl, s, userId) THEN s ELSE NoSlot

\* slots.filter((s) => !s.reserved_by_id), as the slot numbers offered
freeSlots(rows) == {rows[i].slot_no : i \in {j \in DOMAIN rows : rows[j].reserved_by_id = NULL}}

\* getMeta("panel_message_id"): r.rows[0]?.v ?? null
getMeta(m) == m

\* An insert that keeps the row it finds (ON CONFLICT DO NOTHING).
setMetaKeep(m, value) == IF m # NoId THEN m ELSE value

\* INSERT ... ON CONFLICT (k) DO UPDATE SET v=EXCLUDED.v
setMeta(m, value) == value

\* ---------------------------------------------------------- the renderer
RECURSIVE Digits(_)
Digits(n) == IF n < 10 THEN <<n>> ELSE Append(Digits(n \div 10), n % 10)

\* String(n).padStart(2, "0"), as the sequence of its digits
pad2(n) == IF n < 10 THEN <<0, n>> ELSE Digits(n)

\* A formatter without the test for whole hours.
humanRemainingBoth(ms) ==
  IF ms <= 0 THEN <<"expirat">>
  ELSE LET totalMin == ms \div MS_PER_MIN
           h == totalMin \div 60
           m == totalMin % 60
       IN  IF h <= 0 THEN <<"peste", m, "minute">>
           ELSE <<"peste", h, "ore", m, "minute">>

humanRemaining(ms) ==
  IF ms <= 0 THEN <<"expirat">>
  ELSE LET totalMin == ms \div MS_PER_MIN
           h == totalMin \div 60
           m == totalMin % 60
       IN  IF h <= 0 THEN <<"peste", m, "minute">>
           ELSE IF m = 0 THEN <<"peste", h, "ore">>
           ELSE <<"peste", h, "ore", m, "minute">>

\* One line of the panel for row s of the snapshot, rendered at time t.
panelLine(s, t) ==
  IF s.reserved_by_id = NULL \/ s.ends_at = NULL_TS
  THEN [label |-> pad2(s.slot_no), mark |-> "Liber", name |-> "", remaining |-> <<>>]
  ELSE [label |-> pad2(s.slot_no), mark |-> "Rezervat",
        name |-> IF s.reserved_by_name # NULL /\ s.reserved_by_name # ""
                 THEN s.reserved_by_name ELSE "Necunoscut",
        remaining |-> humanRemaining(s.ends_at - t)]

\* The lines of the embed, one per row of the snapshot, in its order.
buildPanelEmbed(rows, t) == [i \in 1..Len(rows) |-> panelLine(rows[i], t)]

\* -------------------------------------------------------- display surface
NoMessage == [state |-> "none", doc |-> <<>>]

\* channel.messages.fetch(id).catch(() => null): whether a message came back
msgExists(ms, id) == id \in DOMAIN ms /\ ms[id].state = "live"

\* msg.edit({ embeds: [embed], components })
editMessage(ms, id, doc) == [ms EXCEPT ![id] = [state |-> "live", doc |-> doc]]

\* channel.send({ embeds: [embed], components }), the new message getting id
sendMessage(ms, id, doc) == [ms EXCEPT ![id] = [state |-> "live", doc |-> doc]]

LiveMessages(ms) == {id \in DOMAIN ms : msgExists(ms, id)}

\* An upsert that never persists the id of the message it creates.
upsertNoPersist(st, up, t) ==
  IF ~up THEN st
  ELSE LET sl == freeExpiredSlots(st.slots, t)
           doc == buildPanelEmbed(getSlots(sl), t)
           id == getMeta(st.meta)
       IN  IF id # NoId /\ msgExists(st.messages, id)
           THEN [st EXCEPT !.slots = sl, !.messages = editMessage(@, id, doc)]
           ELSE [st EXCEPT !.slots = sl,
                           !.messages = sendMessage(@, st.nextId, doc),
                           !.nextId = @ + 1]

\* upsertPanelMessage run to completion at one clock value t, on the store
\* and channel st = [slots, meta, messages, nextId], the channel being
\* reachable or not (up).
upsertPanelMessage(st, up, t) ==
  IF ~up THEN st
  ELSE LET sl == freeExpiredSlots(st.slots, t)
           doc == buildPanelEmbed(getSlots(sl), t)
           id == getMeta(st.meta)
       IN  IF id # NoId /\ msgExists(st.messages, id)
           THEN [st EXCEPT !.slots = sl, !.messages = editMessage(@, id, doc)]
           ELSE [st EXCEPT !.slots = sl,
                           !.messages = sendMessage(@, st.nextId, doc),
                           !.meta = setMeta(@, st.nextId),
                           !.nextId = @ + 1]

\* The embed upsertPanelMessage builds in that run.
upsertPanelDoc(st, t) == buildPanelEmbed(getSlots(freeExpiredSlots(st.slots, t)), t)

\* ------------------------------------------------------------------ Init
\* dbInit: the tables exist, every slot row holds NULLs, no meta row.
InitControl ==
  /\ meta = NoId
  /\ messages = [id \in 1..MaxMessages |-> NoMessage]
  /\ nextId = 1
  /\ ticks = 0
  /\ alive = TRUE
  /\ pc = [p \in Procs |-> "idle"]
  /\ kind = [p \in Procs |-> "none"]
  /\ slotNo = [p \in Procs |-> NoSlot]
  /\ rowCount = [p \in Procs |-> 0]
  /\ ok = [p \in Procs |-> FALSE]
  /\ released = [p \in Procs |-> NoSlot]
  /\ mine = [p \in Procs |-> {}]
  /\ embed = [p \in Procs |-> <<>>]
  /\ messageId = [p \in Procs |-> NoId]
  /\ sent = [p \in Procs |-> NoId]
  /\ reply = [p \in Procs |-> "none"]

InitQuiet ==
  /\ slots = [s \in Slots |-> FreeRow]
  /\ now = 0
  /\ InitControl

\* The process has just started; the panel channel is reachable.
Init == InitQuiet /\ channelUp = TRUE

\* PANEL_CHANNEL_ID names a channel that cannot be fetched.
InitNoChannel == InitQuiet /\ channelUp = FALSE

\* ------------------------------------------------------- handler entries
\* Number.isInteger(v), for the values a selection converts to
isInteger(v) == v # NaN

\* a < b in JavaScript: false as soon as an operand is NaN
jsLess(a, b) == a # NaN /\ b # NaN /\ a < b

\* A validation that only compares with the ends of the range.
invalidSlotRangeOnly(v) == jsLess(v, 1) \/ jsLess(SLOT_COUNT, v)

\* !Number.isInteger(slotNo) || slotNo < 1 || slotNo > SLOT_COUNT
invalidSlot(v) == ~isInteger(v) \/ jsLess(v, 1) \/ jsLess(SLOT_COUNT, v)

\* A new invocation of handler k on control flow p, picked value v, entered
\* at "at": its locals start fresh (what the previous invocation answered
\* stays visible until then).
Enter(p, k, v, at) ==
  /\ alive
  /\ pc[p] = "idle"
  /\ pc' = [pc EXCEPT ![p] = at]
  /\ kind' = [kind EXCEPT ![p] = k]
  /\ slotNo' = [slotNo EXCEPT ![p] = v]
  /\ rowCount' = [rowCount EXCEPT ![p] = 0]
  /\ ok' = [ok EXCEPT ![p] = FALSE]
  /\ released' = [released EXCEPT ![p] = NoSlot]
  /\ mine' = [mine EXCEPT ![p] = {}]
  /\ embed' = [embed EXCEPT ![p] = <<>>]
  /\ messageId' = [messageId EXCEPT ![p] = NoId]
  /\ sent' = [sent EXCEPT ![p] = NoId]
  /\ UNCHANGED <<store, surface, runtime>>

\* setInterval callback: try { await upsertPanelMessage() }
StartTick(p) ==
  /\ Enter(p, "tick", NoSlot, "chan")
  /\ reply' = [reply EXCEPT ![p] = "none"]

\* /setup-frigidere: deferReply, then upsertPanelMessage
StartSetup(p) ==
  /\ Enter(p, "setup-frigidere", NoSlot, "chan")
  /\ reply' = [reply EXCEPT ![p] = "none"]

\* customId fridge_refresh: deferUpdate, then upsertPanelMessage
StartRefresh(p) ==
  /\ Enter(p, "fridge_refresh", NoSlot, "chan")
  /\ reply' = [reply EXCEPT ![p] = "none"]

\* customId fridge_reserve: freeExpiredSlots comes first
StartReserve(p) ==
  /\ Enter(p, "fridge_reserve", NoSlot, "sweep")
  /\ reply' = [reply EXCEPT ![p] = "none"]

\* customId fridge_release: deferReply, then freeExpiredSlots
StartRelease(p) ==
  /\ Enter(p, "fridge_release", NoSlot, "sweep")
  /\ reply' = [reply EXCEPT ![p] = "none"]

\* customId fridge_release of index.js: deferReply, then freeExpiredSlots
StartReleaseAny(p) ==
  /\ Enter(p, "fridge_release_any", NoSlot, "sweep")
  /\ reply' = [reply EXCEPT ![p] = "none"]

\* select menu fridge_pick_slot: validate, deferUpdate, then freeExpiredSlots
StartPick(p, v) ==
  /\ Enter(p, "fridge_pick_slot", v, IF invalidSlot(v) THEN "idle" ELSE "sweep")
  /\ reply' = [reply EXCEPT ![p] = IF invalidSlot(v) THEN "Slot invalid" ELSE "none"]

\* select menu fridge_release_pick: validate, deferUpdate, then freeExpiredSlots
StartReleasePick(p, v) ==
  /\ Enter(p, "fridge_release_pick", v, IF invalidSlot(v) THEN "idle" ELSE "sweep")
  /\ reply' = [reply EXCEPT ![p] = IF invalidSlot(v) THEN "Slot invalid" ELSE "none"]

\* ------------------------------------------------------ store operations
\* await freeExpiredSlots(), in a handler ("sweep") or in upsertPanelMessage ("psweep")
FreeExpired(p) ==
  /\ pc[p] \in {"sweep", "psweep"}
  /\ slots' = freeExpiredSlots(slots, now)
  /\ rowCount' = [rowCount EXCEPT ![p] = freeExpiredCount(slots, now)]
  /\ pc' = [pc EXCEPT ![p] = IF pc[p] = "sweep" THEN "op" ELSE "getSlots"]
  /\ UNCHANGED <<meta, surface, runtime, kind, slotNo, ok, released,
                 mine, embed, messageId, sent, reply>>

\* fridge_reserve: getSlots, filter the free ones, reply with the menu
ListFree(p) ==
  /\ pc[p] = "op" /\ kind[p] = "fridge_reserve"
  /\ mine' = [mine EXCEPT ![p] = freeSlots(getSlots(slots))]
  /\ reply' = [reply EXCEPT ![p] =
                 IF freeSlots(getSlots(slots)) = {} THEN "no free slot" ELSE "menu"]
  /\ pc' = [pc EXCEPT ![p] = "idle"]
  /\ rowCount' = [rowCount EXCEPT ![p] = 0]
  /\ UNCHANGED <<store, surface, runtime, kind, slotNo, ok, released,
                 embed, messageId, sent>>

\* fridge_release: getUserReservedSlots, reply with the menu
ListMine(p) ==
  /\ pc[p] = "op" /\ kind[p] = "fridge_release"
  /\ mine' = [mine EXCEPT ![p] = getUserReservedSlots(slots, User(p))]
  /\ reply' = [reply EXCEPT ![p] =
                 IF getUserReservedSlots(slots, User(p)) = {} THEN "none reserved" ELSE "menu"]
  /\ pc' = [pc EXCEPT ![p] = "idle"]
  /\ rowCount' = [rowCount EXCEPT ![p] = 0]
  /\ UNCHANGED <<store, surface, runtime, kind, slotNo, ok, released,
                 embed, messageId, sent>>

\* fridge_pick_slot: ok = await reserveSlot(...); if (!ok) editReply and return
Reserve(p) ==
  /\ pc[p] = "op" /\ kind[p] = "fridge_pick_slot"
  /\ slots' = reserveSlot(slots, slotNo[p], User(p), displayName(User(p)), now)
  /\ ok' = [ok EXCEPT ![p] = reserveSlotResult(slots, slotNo[p], User(p))]
  /\ IF ok'[p]
     THEN pc' = [pc EXCEPT ![p] = "chan"] /\ UNCHANGED reply
     ELSE /\ pc' = [pc EXCEPT ![p] = "idle"]
          /\ reply' = [reply EXCEPT ![p] = "alreadyHeld"]
  /\ rowCount' = [rowCount EXCEPT ![p] = 0]
  /\ UNCHANGED <<meta, surface, runtime, kind, slotNo, released,
                 mine, embed, messageId, sent>>

\* fridge_release_pick: released = await releaseSpecificSlot(...); if (!released) ...
Release(p) ==
  /\ pc[p] = "op" /\ kind[p] = "fridge_release_pick"
  /\ slots' = releaseSpecificSlot(slots, slotNo[p], User(p))
  /\ released' = [released EXCEPT ![p] = releaseSpecificSlotResult(slots, slotNo[p], User(p))]
  /\ IF released'[p] # NoSlot
     THEN pc' = [pc EXCEPT ![p] = "chan"] /\ UNCHANGED reply
     ELSE /\ pc' = [pc EXCEPT ![p] = "idle"]
          /\ reply' = [reply EXCEPT ![p] = "notHeld"]
  /\ rowCount' = [rowCount EXCEPT ![p] = 0]
  /\ UNCHANGED <<meta, surface, runtime, kind, slotNo, ok,
                 mine, embed, messageId, sent>>

\* ---------------------------------------------------- upsertPanelMessage
\* What the caller answers once upsertPanelMessage has returned.
successReply(k) ==
  CASE k = "fridge_pick_slot" -> "reserved"
    [] k = "fridge_release_pick" -> "released"
    [] k = "fridge_refresh" -> "refreshed"
    [] k = "setup-frigidere" -> "Panel actualizat"
    [] OTHER -> "ticked"

\* What happens to an exception: the handler's catch replies, the timer's logs.
failureReply(k) == IF k = "tick" THEN "logged" ELSE "error"

\* The invocation of p ends answering a: the locals of upsertPanelMessage are gone.
Finish(p, a) ==
  /\ pc' = [pc EXCEPT ![p] = "idle"]
  /\ reply' = [reply EXCEPT ![p] = a]
  /\ embed' = [embed EXCEPT ![p] = <<>>]
  /\ messageId' = [messageId EXCEPT ![p] = NoId]
  /\ sent' = [sent EXCEPT ![p] = NoId]
  /\ UNCHANGED <<kind, slotNo, rowCount, ok, released, mine>>

\* index.js, fridge_release: releasedSlot = await releaseUserSlot(user.id).
\* index.js defines no releaseUserSlot and requires no module that would:
\* evaluating the call raises ReferenceError, which the handler's catch answers.
ReleaseAny(p) ==
  /\ pc[p] = "op" /\ kind[p] = "fridge_release_any"
  /\ Finish(p, failureReply(kind[p]))
  /\ UNCHANGED <<store, surface, runtime>>

\* The awaits of a handler whose rejection is an exception in the handler
\* (the two fetches have their own .catch(() => null)).
Awaits == {"sweep", "op", "psweep", "getSlots", "getMeta", "edit", "send", "setMeta"}

\* A timer callback without try/catch: its rejection is unhandled.
catchesInteractions(k) == k # "tick"

\* Whether an exception in handler k is caught: try/catch of the
\* InteractionCreate handler, try/catch of the setInterval callback.
catches(k) == TRUE

\* The store or display call p awaits rejects without having applied; an
\* unhandled rejection ends the process.
Throw(p) ==
  /\ alive
  /\ pc[p] \in Awaits
  /\ alive' = catches(kind[p])
  /\ Finish(p, failureReply(kind[p]))
  /\ UNCHANGED <<store, surface, now, ticks>>

\* channel = await client.channels.fetch(...).catch(() => null); if (!channel) return
FetchChannel(p) ==
  /\ pc[p] = "chan"
  /\ IF channelUp
     THEN /\ pc' = [pc EXCEPT ![p] = "psweep"]
          /\ UNCHANGED locals
     ELSE Finish(p, successReply(kind[p]))
  /\ UNCHANGED <<store, surface, runtime>>

\* slots = await getSlots(); embed = buildPanelEmbed(slots)
GetSlots(p) ==
  /\ pc[p] = "getSlots"
  /\ embed' = [embed EXCEPT ![p] = buildPanelEmbed(getSlots(slots), now)]
  /\ rowCount' = [rowCount EXCEPT ![p] = 0]
  /\ pc' = [pc EXCEPT ![p] = "getMeta"]
  /\ UNCHANGED <<store, surface, runtime, kind, slotNo, ok, released,
                 mine, messageId, sent, reply>>

\* messageId = await getMeta("panel_message_id"); if (messageId) ...
GetMeta(p) ==
  /\ pc[p] = "getMeta"
  /\ messageId' = [messageId EXCEPT ![p] = getMeta(meta)]
  /\ pc' = [pc EXCEPT ![p] = IF getMeta(meta) # NoId THEN "fetchMsg" ELSE "send"]
  /\ UNCHANGED <<store, surface, runtime, kind, slotNo, rowCount, ok, released,
                 mine, embed, sent, reply>>

\* msg = await channel.messages.fetch(messageId).catch(() => null); if (msg) ...
FetchMsg(p) ==
  /\ pc[p] = "fetchMsg"
  /\ pc' = [pc EXCEPT ![p] = IF msgExists(messages, messageId[p]) THEN "edit" ELSE "send"]
  /\ UNCHANGED <<store, surface, runtime, locals>>

\* await msg.edit(...); return.  Editing a message deleted meanwhile throws.
Edit(p) ==
  /\ pc[p] = "edit"
  /\ IF msgExists(messages, messageId[p])
     THEN /\ messages' = editMessage(messages, messageId[p], embed[p])
          /\ Finish(p, successReply(kind[p]))
     ELSE /\ UNCHANGED messages
          /\ Finish(p, failureReply(kind[p]))
  /\ UNCHANGED <<store, nextId, channelUp, runtime>>

\* sent = await channel.send(...)
Send(p) ==
  /\ pc[p] = "send"
  /\ nextId <= MaxMessages
  /\ messages' = sendMessage(messages, nextId, embed[p])
  /\ sent' = [sent EXCEPT ![p] = nextId]
  /\ nextId' = nextId + 1
  /\ pc' = [pc EXCEPT ![p] = "setMeta"]
  /\ UNCHANGED <<store, channelUp, runtime, kind, slotNo, rowCount, ok, released,
                 mine, embed, messageId, reply>>

\* await setMeta("panel_message_id", sent.id)
SetMeta(p) ==
  /\ pc[p] = "setMeta"
  /\ meta' = setMeta(meta, sent[p])
  /\ Finish(p, successReply(kind[p]))
  /\ UNCHANGED <<slots, surface, runtime>>

\* ------------------------------------------------------- the environment
\* Time passes.
ClockTick(d) ==
  /\ ticks < MaxTicks
  /\ now' = now + d
  /\ ticks' = ticks + 1
  /\ UNCHANGED <<store, surface, alive, pc, locals>>

\* Somebody deletes a panel message in Discord.
DeleteMessage(id) ==
  /\ msgExists(messages, id)
  /\ messages' = [messages EXCEPT ![id] = [state |-> "deleted", doc |-> <<>>]]
  /\ UNCHANGED <<store, nextId, channelUp, runtime, pc, locals>>

\* The panel channel becomes unreachable, or reachable again.
ChannelFlip ==
  /\ channelUp' = ~channelUp
  /\ UNCHANGED <<store, messages, nextId, runtime, pc, locals>>

\* One step of a handler against the slot store.
StoreStep(p) ==
  \/ FreeExpired(p)
  \/ ListFree(p)
  \/ ListMine(p)
  \/ Reserve(p)
  \/ Release(p)

\* One step of upsertPanelMessage past the channel fetch.
PanelStep(p) ==
  \/ GetSlots(p)
  \/ GetMeta(p)
  \/ FetchMsg(p)
  \/ Edit(p)
  \/ Send(p)
  \/ SetMeta(p)

\* The lease side: two users reserve and release while the timer fires and
\* time passes.  The panel channel cannot be fetched, so every
\* upsertPanelMessage returns right after the fetch.
NextLease ==
  \/ StartTick("timer")
  \/ \E p \in Clients : StartReserve(p)
  \/ \E p \in Clients : StartRelease(p)
  \/ \E p \in Clients, v \in PickValues : StartPick(p, v)
  \/ \E p \in Clients, v \in PickValues : StartReleasePick(p, v)
  \/ \E p \in Procs : StoreStep(p)
  \/ \E p \in Procs : FetchChannel(p)
  \/ \E d \in ClockSteps : ClockTick(d)

SpecLease == InitNoChannel /\ [][NextLease]_vars

\* The panel side: one user refreshes and reserves while the timer fires
\* and leases run out; the panel message may be deleted and the channel may
\* become unreachable at any moment.
NextPanel ==
  \/ StartTick("timer")
  \/ StartRefresh("h1")
  \/ \E v \in PickValues : StartPick("h1", v)
  \/ \E p \in Procs : FreeExpired(p)
  \/ \E p \in Procs : Reserve(p)
  \/ \E p \in Procs : FetchChannel(p)
  \/ \E p \in Procs : PanelStep(p)
  \/ ClockTick(LEASE_MS)
  \/ \E id \in 1..MaxMessages : DeleteMessage(id)
  \/ ChannelFlip

SpecPanel == Init /\ [][NextPanel]_vars

\* Failures: one user sets the panel up, reserves and releases while the
\* timer fires; any awaited store or display call may reject, any selection
\* may arrive, and the channel may become unreachable.
NextFail ==
  \/ StartTick("timer")
  \/ StartSetup("h1")
  \/ \E v \in Selections : StartPick("h1", v)
  \/ \E v \in Selections : StartReleasePick("h1", v)
  \/ \E p \in Procs : FreeExpired(p)
  \/ \E p \in Procs : Reserve(p)
  \/ \E p \in Procs : Release(p)
  \/ \E p \in Procs : FetchChannel(p)
  \/ \E p \in Procs : PanelStep(p)
  \/ \E p \in Procs : Throw(p)
  \/ ChannelFlip

SpecFail == Init /\ [][NextFail]_vars

\* Overlapping refreshes: one user refreshes, reserves and releases while the
\* timer fires; the channel stays reachable, nothing fails and no lease runs out.
NextRace ==
  \/ StartTick("timer")
  \/ StartRefresh("h1")
  \/ \E v \in PickValues : StartPick("h1", v)
  \/ \E v \in PickValues : StartReleasePick("h1", v)
  \/ \E p \in Procs : FreeExpired(p)
  \/ \E p \in Procs : Reserve(p)
  \/ \E p \in Procs : Release(p)
  \/ \E p \in Procs : FetchChannel(p)
  \/ \E p \in Procs : PanelStep(p)

SpecRace == Init /\ [][NextRace]_vars

\* The single-slot variant (index.js): two users reserve and release; the
\* panel channel cannot be fetched.
NextSingle ==
  \/ \E p \in Clients, v \in PickValues : StartPick(p, v)
  \/ \E p \in Clients : StartReleaseAny(p)
  \/ \E p \in Procs : FreeExpired(p)
  \/ \E p \in Procs : Reserve(p)
  \/ \E p \in Procs : ReleaseAny(p)
  \/ \E p \in Procs : FetchChannel(p)
  \/ \E d \in ClockSteps : ClockTick(d)

SpecSingle == InitNoChannel /\ [][NextSingle]_vars

\* When the leases found at start were taken: the remaining time at start
\* (LEASE_MS after 0) is the value itself, and a minute less a minute later.
LeaseStarts == {0, 1, 59999, 60000, 60001, 119999, 3600000, 3659999, 3660000, LEASE_MS}

\* A row reserved by u at time r.
LeasedRow(u, r) == [reserved_by_id |-> u, reserved_by_name |-> displayName(u),
                    reserved_at |-> r, ends_at |-> r + LEASE_MS]

\* The process starts on a store where leases of any age are running.
InitRender ==
  /\ slots \in [Slots -> {FreeRow} \cup {LeasedRow("u1", r) : r \in LeaseStarts}]
  /\ now = LEASE_MS
  /\ InitControl
  /\ channelUp = TRUE

\* Rendering: the timer refreshes the panel while a minute passes.
NextRender ==
  \/ StartTick("timer")
  \/ \E p \in Procs : FetchChannel(p)
  \/ \E p \in Procs : FreeExpired(p)
  \/ \E p \in Procs : PanelStep(p)
  \/ ClockTick(MS_PER_MIN)

SpecRender == InitRender /\ [][NextRender]_vars

\* The process starts on a store where user u1 may hold leases taken at 0,
\* the panel channel reachable or not.
InitExpiry ==
  /\ slots \in [Slots -> {FreeRow, LeasedRow("u1", 0)}]
  /\ now = 0
  /\ InitControl
  /\ channelUp \in BOOLEAN

\* Expiry with no user around: only the timer runs while a lease time passes
\* and the channel comes and goes.
NextExpiry ==
  \/ StartTick("timer")
  \/ FetchChannel("timer")
  \/ FreeExpired("timer")
  \/ PanelStep("timer")
  \/ ClockTick(LEASE_MS)
  \/ ChannelFlip

\* setInterval keeps firing, every awaited call of a callback completes, and
\* time passes; nothing brings an unreachable channel back.
FairExpiry ==
  /\ WF_vars(StartTick("timer"))
  /\ WF_vars(FetchChannel("timer"))
  /\ WF_vars(FreeExpired("timer"))
  /\ WF_vars(PanelStep("timer"))
  /\ WF_vars(ClockTick(LEASE_MS))

SpecExpiry == InitExpiry /\ [][NextExpiry]_vars /\ FairExpiry

\* ------------------------------------------------------------ the claims
\* The step in which p's reserveSlot statement runs.
ReserveBy(p) == pc[p] = "op" /\ kind[p] = "fridge_pick_slot" /\ pc'[p] # "op"

\* The step in which p's releaseSpecificSlot statement runs.
ReleaseBy(p) == pc[p] = "op" /\ kind[p] = "fridge_release_pick" /\ pc'[p] # "op"

\* The step in which p's getUserReservedSlots query runs.
ListMineBy(p) == pc[p] = "op" /\ kind[p] = "fridge_release" /\ pc'[p] # "op"

\* The step in which a freeExpiredSlots statement of p runs.
SweepBy(p) == pc[p] \in {"sweep", "psweep"} /\ pc'[p] # pc[p]

Leased(s) == slots[s].reserved_by_id # NULL

\* C1: a claim of a free slot succeeds and makes the caller the holder; and
\* as long as no lease can have expired (now < LEASE_MS), the user whose
\* latest claim succeeded on a slot holds it, so two users' claims of one
\* slot never both succeed, and the later of the two is answered alreadyHeld
\* with the winner left as holder.
C1_Winner ==
  now < LEASE_MS =>
    \A p \in Clients : ok[p] => slots[slotNo[p]].reserved_by_id = User(p)

C1_Race ==
  \A p \in Clients : ReserveBy(p) =>
    /\ slots[slotNo[p]].reserved_by_id = NULL =>
         ok'[p] /\ slots'[slotNo[p]].reserved_by_id = User(p)
    /\ \A q \in Clients \ {p} :
         (ok[q] /\ slotNo[q] = slotNo[p] /\ slots[slotNo[p]].reserved_by_id = User(q)) =>
           /\ ~ok'[p]
           /\ reply'[p] = "alreadyHeld"
           /\ slots'[slotNo[p]].reserved_by_id = User(q)

C1_ExactlyOneClaimWins == [](C1_Winner) /\ [][C1_Race]_vars

\* One user's claim has succeeded, the other user's claim of the same slot
\* has been answered alreadyHeld, and the winner is the holder.
C1_Witness ==
  \E p \in Clients, q \in Clients :
    /\ p # q /\ now < LEASE_MS
    /\ ok[p] /\ slotNo[q] = slotNo[p]
    /\ kind[q] = "fridge_pick_slot" /\ reply[q] = "alreadyHeld"
    /\ slots[slotNo[p]].reserved_by_id = User(p)

\* C2: a claim of a slot that has a holder, the caller included, is answered
\* alreadyHeld and changes no row of the store.
C2_HeldClaimRefused ==
  [][\A p \in Clients :
       (ReserveBy(p) /\ slots[slotNo[p]].reserved_by_id # NULL) =>
         ~ok'[p] /\ reply'[p] = "alreadyHeld" /\ slots' = slots]_vars

\* A user's claim of the slot that user holds has been answered alreadyHeld.
C2_Witness ==
  \E p \in Clients :
    /\ kind[p] = "fridge_pick_slot" /\ reply[p] = "alreadyHeld"
    /\ slots[slotNo[p]].reserved_by_id = User(p)
    /\ slots[slotNo[p]].ends_at > now

\* C3: a release returns the slot number and clears the row exactly when the
\* caller holds the slot; on a free slot or another user's slot it returns
\* nothing, is answered notHeld and changes no row.
C3_ReleaseIffHolder ==
  [][\A p \in Clients : ReleaseBy(p) =>
       IF slots[slotNo[p]].reserved_by_id = User(p)
       THEN /\ released'[p] = slotNo[p]
            /\ slots' = [slots EXCEPT ![slotNo[p]] = FreeRow]
       ELSE /\ released'[p] = NoSlot
            /\ reply'[p] = "notHeld"
            /\ slots' = slots]_vars

\* One user has released a slot, and the other was refused the release of a
\* slot that the first user holds.
C3_Witness ==
  \E p \in Clients, q \in Clients :
    /\ p # q
    /\ released[p] # NoSlot /\ slots[released[p]] = FreeRow
    /\ kind[q] = "fridge_release_pick" /\ reply[q] = "notHeld"
    /\ slots[slotNo[q]].reserved_by_id = User(p)

\* C4: right after a sweep every slot is free, or leased with ends_at
\* strictly after the sweep's time.
C4_SweptOrFuture ==
  [][\A p \in Procs : SweepBy(p) =>
       \A s \in Slots :
         \/ slots'[s] = FreeRow
         \/ slots'[s].reserved_by_id # NULL /\ slots'[s].ends_at > now]_vars

\* A sweep has just cleared a row and left a running lease in place.
C4_Witness ==
  \E p \in Procs :
    /\ pc[p] = "op" /\ rowCount[p] > 0
    /\ \E s \in Slots : slots[s] = FreeRow
    /\ \E s \in Slots : Leased(s) /\ slots[s].ends_at > now

\* C5: the slots listed for a user's release are held by that user with
\* ends_at still in the future at the time of the read.
C5_ListHeldByUnexpired ==
  [][\A p \in Clients : ListMineBy(p) =>
       \A s \in mine'[p] :
         slots[s].reserved_by_id = User(p) /\ slots[s].ends_at > now]_vars

\* C6: a row has a holder exactly when it has an expiry.
C6_HolderIffExpiry ==
  \A s \in Slots : (slots[s].reserved_by_id = NULL) <=> (slots[s].ends_at = NULL_TS)

\* A slot is leased while another has been released by its holder.
C6_Witness ==
  /\ \E s \in Slots : Leased(s) /\ slots[s].ends_at # NULL_TS
  /\ \E p \in Clients : released[p] # NoSlot /\ slots[released[p]].ends_at = NULL_TS

\* C7: a second sweep at the clock value of the first changes nothing and
\* clears no row; a sweep that finds no expired row leaves the store as it was.
C7_SweepIdempotent ==
  [][\A p \in Procs : SweepBy(p) =>
       /\ freeExpiredSlots(slots', now) = slots'
       /\ freeExpiredCount(slots', now) = 0
       /\ (freeExpiredCount(slots, now) = 0 => slots' = slots)]_vars

\* One sweep has just cleared rows and another has just found none to clear,
\* a lease still running.
C7_Witness ==
  \E p \in Procs, q \in Procs :
    /\ p # q
    /\ pc[p] = "op" /\ rowCount[p] = SLOT_COUNT
    /\ pc[q] = "op" /\ rowCount[q] = 0
    /\ now >= LEASE_MS

\* C8: after a successful claim the slot is among those listed for the
\* claimant; a sweep run when the clock has reached ends_at takes it off the
\* holder's list and puts it among the free slots of the full listing.
C8_RoundTrip ==
  [][/\ \A p \in Clients : (ReserveBy(p) /\ ok'[p]) =>
          slotNo[p] \in getUserReservedSlots(slots', User(p))
     /\ \A p \in Procs : SweepBy(p) =>
          \A s \in Slots :
            (Leased(s) /\ slots[s].ends_at <= now) =>
              /\ s \notin getUserReservedSlots(slots', slots[s].reserved_by_id)
              /\ s \in freeSlots(getSlots(slots'))]_vars

\* A user's claim succeeded, the lease ran out, and a sweep has just cleared
\* the slot.
C8_Witness ==
  \E p \in Procs, q \in Clients :
    /\ pc[p] = "op" /\ rowCount[p] > 0
    /\ ok[q] /\ slots[slotNo[q]] = FreeRow
    /\ slotNo[q] \notin getUserReservedSlots(slots, User(q))
    /\ slotNo[q] \in freeSlots(getSlots(slots))

\* The store and the channel as one value, for upsertPanelMessage.
World == [slots |-> slots, meta |-> meta, messages |-> messages, nextId |-> nextId]

\* Time between two calls made one after the other: none, or a minute.
PublishGaps == {0, MS_PER_MIN}

\* The channel can be fetched and has room for one more message.
CanPublish == channelUp /\ nextId <= MaxMessages

\* Two upsertPanelMessage calls in a row from the current state, the second
\* d ms after the first, build the same document.
TwiceSameDoc(d) ==
  LET w1 == upsertPanelMessage(World, channelUp, now)
  IN  upsertPanelDoc(w1, now + d) = upsertPanelDoc(World, now)

\* ... and the second call edits the message the first one wrote, which the
\* persisted id names, and creates none.
TwiceOneMessage(d) ==
  LET w1 == upsertPanelMessage(World, channelUp, now)
      w2 == upsertPanelMessage(w1, channelUp, now + d)
  IN  /\ msgExists(w1.messages, w1.meta)
      /\ w1.messages[w1.meta].doc = upsertPanelDoc(World, now)
      /\ w2.meta = w1.meta
      /\ w2.nextId = w1.nextId
      /\ LiveMessages(w2.messages) = LiveMessages(w1.messages)
      /\ w2.messages[w2.meta].doc = upsertPanelDoc(w1, now + d)
      /\ \A id \in DOMAIN messages : id # w1.meta => w2.messages[id] = w1.messages[id]

\* C9 as claimed: two calls in a row, with no slot mutation and no change of
\* the channel between them, build the same document and write one message,
\* whatever time passes between them.
C9_PublishTwiceSame ==
  CanPublish => \A d \in PublishGaps : TwiceSameDoc(d) /\ TwiceOneMessage(d)

\* C9 amended: the documents are the same when the clock has not advanced
\* between the two calls; the second call edits the first call's message and
\* creates none, whatever time passes.
C9_PublishTwiceSameClock ==
  CanPublish => TwiceSameDoc(0) /\ \A d \in PublishGaps : TwiceOneMessage(d)

\* The user's claim created the panel, the timer's refresh has been applied
\* to that same message, and it shows the store with its lease as it is now.
C9_Witness ==
  /\ CanPublish
  /\ pc = [p \in Procs |-> "idle"]
  /\ reply["h1"] = "reserved" /\ reply["timer"] = "ticked"
  /\ nextId = 2 /\ meta = 1 /\ msgExists(messages, 1)
  /\ \E s \in Slots : Leased(s) /\ slots[s].ends_at > now
  /\ messages[1].doc = upsertPanelDoc(World, now)

\* The steps of upsertPanelMessage on the path taken when the persisted
\* message is gone.
FetchMsgBy(p) == pc[p] = "fetchMsg" /\ pc'[p] # "fetchMsg"
SendBy(p) == pc[p] = "send" /\ pc'[p] # "send"
SetMetaBy(p) == pc[p] = "setMeta" /\ pc'[p] # "setMeta"

\* C10: when the persisted id names a message that is gone, the fetch sends
\* upsertPanelMessage on to create a message, the message created is a new
\* one showing the document just built, and the persisted id is overwritten
\* with its id: the persisted id then names that message, which shows that
\* document unless it was deleted in its turn before the id was stored.
C10_ReplacesDeletedPanel ==
  [][\A p \in Procs :
       /\ (FetchMsgBy(p) /\ ~msgExists(messages, messageId[p])) => pc'[p] = "send"
       /\ (SendBy(p) /\ messageId[p] # NoId) =>
            /\ ~msgExists(messages, sent'[p])
            /\ msgExists(messages', sent'[p])
            /\ messages'[sent'[p]].doc = embed[p]
            /\ pc'[p] = "setMeta"
       /\ (SetMetaBy(p) /\ messageId[p] # NoId) =>
            /\ meta' = sent[p]
            /\ meta' # messageId[p]
            /\ msgExists(messages, sent[p]) =>
                 msgExists(messages', meta') /\ messages'[meta'].doc = embed[p]]_vars

\* The persisted id names a deleted message, and a replacement showing the
\* document just built has been created and is about to be persisted.
C10_Witness ==
  \E p \in Procs :
    /\ pc[p] = "setMeta"
    /\ messageId[p] # NoId /\ meta = messageId[p]
    /\ messages[messageId[p]].state = "deleted"
    /\ msgExists(messages, sent[p]) /\ messages[sent[p]].doc = embed[p]
    /\ \E s \in Slots : Leased(s)

\* The step in which an exception ends p's invocation.
FailsBy(p) == pc[p] # "idle" /\ pc'[p] = "idle" /\ reply'[p] = failureReply(kind[p])

\* C11: an exception raised by upsertPanelMessage in a timer callback is
\* caught in that callback: the process keeps running and the callback ends
\* with the error logged; whenever no callback is running the next one can
\* start, and a callback that starts enters upsertPanelMessage.
C11_TickFailureCaught ==
  /\ [](alive /\ (pc["timer"] = "idle" => ENABLED StartTick("timer")))
  /\ [][/\ FailsBy("timer") => (alive' /\ reply'["timer"] = "logged")
        /\ (pc["timer"] = "idle" /\ pc'["timer"] # "idle") =>
             (pc'["timer"] = "chan" /\ kind'["timer"] = "tick")]_vars

\* A timer callback has ended on an exception, the panel existing, and the
\* next callback can start.
C11_Witness ==
  /\ alive /\ pc["timer"] = "idle" /\ reply["timer"] = "logged"
  /\ meta # NoId
  /\ ENABLED StartTick("timer")

\* The step in which the store statement of p's claim or release runs.
StoreOpBy(p) ==
  /\ pc[p] = "op" /\ pc'[p] # "op"
  /\ kind[p] \in {"fridge_pick_slot", "fridge_release_pick"}

\* The step in which p's handler of a refresh request starts.
RefreshBy(p) == pc[p] = "idle" /\ pc'[p] # "idle" /\ kind'[p] = "fridge_refresh"

\* C12: on every path through the handler of a claim pick, a release or a
\* refresh, upsertPanelMessage is entered after the store operation (at once
\* for a refresh) and before the handler ends.
C12_ActionsEndWithPublish ==
  [][\A p \in Clients :
       /\ StoreOpBy(p) => pc'[p] = "chan"
       /\ RefreshBy(p) => pc'[p] = "chan"]_vars

\* The step in which p's handler of a selection starts.
SelectBy(p) ==
  /\ pc[p] = "idle"
  /\ kind'[p] \in {"fridge_pick_slot", "fridge_release_pick"}
  /\ <<kind[p], slotNo[p], reply[p], ok[p], released[p], mine[p]>> #
       <<kind'[p], slotNo'[p], reply'[p], ok'[p], released'[p], mine'[p]>> \/ pc'[p] # "idle"

\* C13: a claim or release selection whose slot number is not an integer of
\* 1..SLOT_COUNT is answered "Slot invalid" and the handler ends there: no
\* sweep, claim, release or refresh follows, and the slot rows, the persisted
\* id and the channel are as before.
C13_InvalidSlotRejected ==
  [][\A p \in Clients :
       (SelectBy(p) /\ slotNo'[p] \notin Slots) =>
         /\ pc'[p] = "idle"
         /\ reply'[p] = "Slot invalid"
         /\ UNCHANGED <<store, surface>>]_vars

\* A release selection that is not a number has been answered "Slot invalid"
\* while the user holds a lease.
C13_Witness ==
  /\ pc["h1"] = "idle" /\ reply["h1"] = "Slot invalid"
  /\ kind["h1"] = "fridge_release_pick" /\ slotNo["h1"] = NaN
  /\ \E s \in Slots : slots[s].reserved_by_id = User("h1")

\* C14: when a user's action ends on an exception, the slot rows are what
\* they were before it: the row its claim statement took (free before, ok)
\* is not left with the user as holder, and the row its release statement
\* cleared (the user's before, released) is not left free.
C14_FailedActionNoEffect ==
  [][\A p \in Clients : FailsBy(p) =>
       /\ ok[p] => slots'[slotNo[p]].reserved_by_id # User(p)
       /\ released[p] # NoSlot => slots'[released[p]].reserved_by_id = User(p)]_vars

\* The step in which the release statement of p's fridge_release (index.js) runs.
ReleaseAnyBy(p) == pc[p] = "op" /\ kind[p] = "fridge_release_any" /\ pc'[p] # "op"

\* C15: in the single-slot variant, a release request of a user who holds a
\* slot frees one slot that user holds, all four fields at once, and goes on
\* to report its number; a release request of a user who holds none reports
\* that there is none and changes no row.
C15_ReleaseAnyFreesOne ==
  [][\A p \in Clients : ReleaseAnyBy(p) =>
       IF getUserReservedSlots(slots, User(p)) # {}
       THEN /\ released'[p] \in getUserReservedSlots(slots, User(p))
            /\ slots' = [slots EXCEPT ![released'[p]] = FreeRow]
            /\ pc'[p] = "chan"
       ELSE /\ released'[p] = NoSlot
            /\ reply'[p] = "none reserved"
            /\ slots' = slots]_vars

\* The step in which p's upsertPanelMessage reads the rows and builds its embed.
GetSlotsBy(p) == pc[p] = "getSlots" /\ pc'[p] # "getSlots"

\* The clauses of a remaining-duration text.
HasHours(r) == Len(r) >= 3 /\ r[3] = "ore"
HasMinutes(r) == (Len(r) = 3 /\ r[3] = "minute") \/ (Len(r) = 5 /\ r[5] = "minute")
HoursShown(r) == r[2]
MinutesShown(r) == IF Len(r) = 3 THEN r[2] ELSE r[4]

\* The text r for delta ms: "expirat" when delta <= 0; otherwise an hours
\* clause exactly when h > 0, showing h, and a minutes clause, showing m,
\* exactly when m > 0 (with subMinute: or when h = 0).
RemainingText(r, delta, subMinute) ==
  IF delta <= 0 THEN r = <<"expirat">>
  ELSE LET totalMin == delta \div MS_PER_MIN
           h == totalMin \div 60
           m == totalMin % 60
       IN  /\ Len(r) > 1
           /\ HasHours(r) <=> h > 0
           /\ HasMinutes(r) <=> (m > 0 \/ (subMinute /\ h = 0))
           /\ HasHours(r) => HoursShown(r) = h
           /\ HasMinutes(r) => MinutesShown(r) = m

\* Every remaining-duration text of the embed p builds is as RemainingText says.
TextsOfEmbed(p, subMinute) ==
  \A i \in 1..SLOT_COUNT :
    slots[i].reserved_by_id # NULL =>
      RemainingText(embed'[p][i].remaining, slots[i].ends_at - now, subMinute)

\* C16 as claimed: the text is "expirat" when delta <= 0 and otherwise has
\* an hours clause exactly when h > 0 and a minutes clause exactly when
\* m > 0, also for 0 < delta < 60000.
C16_ClausesIffNonZero ==
  [][\A p \in Procs : GetSlotsBy(p) => TextsOfEmbed(p, FALSE)]_vars

\* C16 amended: the minutes clause is there exactly when m > 0 or h = 0, so
\* a delta under one minute reads "peste 0 minute".
C16_ClausesAsFormatted ==
  [][\A p \in Procs : GetSlotsBy(p) => TextsOfEmbed(p, TRUE)]_vars

\* An embed has been built with a lease of under a minute ("peste 0
\* minute") and a lease of whole hours (no minutes clause).
C16_Witness ==
  \E p \in Procs :
    /\ pc[p] = "getMeta"
    /\ \E i \in 1..SLOT_COUNT : embed[p][i].remaining = <<"peste", 0, "minute">>
    /\ \E i \in 1..SLOT_COUNT :
         HasHours(embed[p][i].remaining) /\ ~HasMinutes(embed[p][i].remaining)

\* C17: the embed built from the full listing has one line per slot, line i
\* for slot i; the line is marked free exactly when the row has no holder,
\* and otherwise shows the holder's name and the remaining time of ends_at -
\* now, which is "expirat" for a row not yet swept whose ends_at has passed.
C17_OneLinePerSlot ==
  [][\A p \in Procs : GetSlotsBy(p) =>
       /\ Len(embed'[p]) = SLOT_COUNT
       /\ \A i \in 1..SLOT_COUNT :
            /\ embed'[p][i].label = pad2(i)
            /\ embed'[p][i].mark = "Liber" <=> slots[i].reserved_by_id = NULL
            /\ slots[i].reserved_by_id # NULL =>
                 /\ embed'[p][i].mark = "Rezervat"
                 /\ embed'[p][i].name = slots[i].reserved_by_name
                 /\ RemainingText(embed'[p][i].remaining, slots[i].ends_at - now, TRUE)
                 /\ slots[i].ends_at <= now => embed'[p][i].remaining = <<"expirat">>]_vars

\* An embed has been built that shows a free slot and a slot whose lease ran
\* out after the sweep, still held in the store.
C17_Witness ==
  \E p \in Procs :
    /\ pc[p] = "getMeta"
    /\ \E i \in 1..SLOT_COUNT : embed[p][i].mark = "Liber" /\ slots[i] = FreeRow
    /\ \E i \in 1..SLOT_COUNT :
         /\ embed[p][i].mark = "Rezervat" /\ embed[p][i].name = "Alice"
         /\ embed[p][i].remaining = <<"expirat">>
         /\ slots[i].reserved_by_id = "u1" /\ slots[i].ends_at <= now

\* C18: the channel never holds two panel messages created by
\* upsertPanelMessage, however the calls of the timer and of the users'
\* handlers interleave, also when they start with no panel message or with
\* the persisted one deleted.
C18_AtMostOnePanel == Cardinality(LiveMessages(messages)) <= 1

\* No invocation is running.
Quiet == \A p \in Procs : pc[p] = "idle"

\* C19: once every upsertPanelMessage in flight has completed, the one panel
\* message ever created shows the embed of the rows as they are now: a call
\* that read the rows before a claim or release never overwrites what a call
\* that read them after it has written.
C19_PanelShowsStore ==
  (Quiet /\ nextId = 2 /\ meta = 1 /\ msgExists(messages, 1)) =>
    messages[1].doc = buildPanelEmbed(getSlots(slots), now)

\* The step in which p's upsertPanelMessage finds the channel unreachable.
NoChannelBy(p) == pc[p] = "chan" /\ ~channelUp /\ pc'[p] # "chan"

\* C20: when the channel cannot be fetched, upsertPanelMessage raises and its
\* caller ends on that exception: it never returns normally with no message
\* written, so no refresh is answered as done.
C20_NoChannelFails ==
  [][\A p \in Procs : NoChannelBy(p) => FailsBy(p)]_vars

\* The step in which p's fridge_reserve handler reads the rows and offers the free ones.
ListFreeBy(p) == pc[p] = "op" /\ kind[p] = "fridge_reserve" /\ pc'[p] # "op"

\* Row s has no holder, or its lease has run out at time t.
FreeAt(s, t) == slots[s].reserved_by_id = NULL \/ slots[s].ends_at <= t

\* C21: a slot is free for claiming when it has no holder or its ends_at has
\* passed, swept or not: the free slots the reserve handler offers include
\* every such slot at the time it reads the rows, and a claim of such a slot
\* succeeds, whoever makes it.
C21_ExpiredIsFree ==
  [][\A p \in Clients :
       /\ ListFreeBy(p) => \A s \in Slots : FreeAt(s, now) => s \in mine'[p]
       /\ (ReserveBy(p) /\ FreeAt(slotNo[p], now)) => ok'[p]]_vars

\* The step in which the timer's upsertPanelMessage gets past its channel fetch.
TickFetchBy == kind["timer"] = "tick" /\ pc["timer"] = "chan" /\ pc'["timer"] # "chan"

\* C22: with the timer firing and time passing, every leased slot is
\* eventually free again, all four fields empty, with no user acting; and
\* every timer callback goes on to the sweep, the channel reachable or not.
C22_EveryLeaseEnds ==
  /\ \A s \in Slots : (slots[s].reserved_by_id # NULL) ~> (slots[s] = FreeRow)
  /\ [][TickFetchBy => pc'["timer"] = "psweep"]_vars

====
